---- MODULE Spec2Model ----
(***************************************************************************)
(* Username spam filter of the discord bot: the decision engine            *)
(* (SpamFilter.runUsernameSpamFilter), the name normalizer                 *)
(* (SpamFilter.sanitizeUsername), the configuration store (the mongo       *)
(* collection of SpamFilterConfig records) and the two store mutations of  *)
(* the configuration service (ConfigSpamFilter).                           *)
(*                                                                         *)
(* One evaluation is one call of runUsernameSpamFilter.  Every `await` of  *)
(* the function is one step of the model, so that the store may change     *)
(* between two reads of one evaluation.                                    *)
(***************************************************************************)
EXTENDS Integers, Sequences, FiniteSets, Bags, TLC

\* Longest nickname / username of a candidate, in code points.
MaxLen == 1

\* Most roles in one call of the configuration service.
MaxBatch == 2

\* The longest string given to sanitizeUsername on its own, in code points.
MaxName == 3

----------------------------------------------------------------------------
(* Code points.  A name is a sequence of code points; each code point is    *)
(* named by a short string.                                                 *)
(*   "a" "b"  ASCII lower-case letters        "A"  ASCII upper-case letter  *)
(*   "SP"     U+0020 SPACE (whitespace)       "STAR" U+2605 (category So)   *)
(*   "CYR_A"  U+0430 CYRILLIC SMALL LETTER A  (a confusable of "a")         *)
(*   "FW_A"   U+FF21 FULLWIDTH LATIN CAPITAL LETTER A (NFKC gives "A")      *)
(*   "BANG"   U+0021 EXCLAMATION MARK (category Po)                         *)
(*   "ACUTE"  U+0301 COMBINING ACUTE ACCENT (category Mn)                   *)
(*   "a_ACUTE" U+00E1, "A_ACUTE" U+00C1: a and A WITH ACUTE, what NFKC      *)
(*            composes "a" or "A" and a following "ACUTE" to                *)

CodePoints ==
    {"a", "b", "A", "SP", "STAR", "CYR_A", "FW_A", "BANG", "ACUTE", "a_ACUTE", "A_ACUTE"}

\* The value of a nickname that is not set (null in the code).
NULL == <<"NULL">>

RECURSIVE Flatten(_)
Flatten(ss) == IF ss = <<>> THEN <<>> ELSE Head(ss) \o Flatten(Tail(ss))

\* The decomposition of a code point under NFKC: the compatibility mapping of
\* the fullwidth letter, the canonical decomposition of the accented letters.
decompose(c) ==
    CASE c = "FW_A"    -> <<"A">>
      [] c = "a_ACUTE" -> <<"a", "ACUTE">>
      [] c = "A_ACUTE" -> <<"A", "ACUTE">>
      [] OTHER         -> <<c>>

\* The canonical composition of NFKC: a letter and the combining mark that
\* follows it become the accented letter, where Unicode has one.
RECURSIVE compose(_)
compose(s) ==
    IF Len(s) < 2 THEN s
    ELSE IF s[1] = "a" /\ s[2] = "ACUTE" THEN <<"a_ACUTE">> \o compose(Tail(Tail(s)))
    ELSE IF s[1] = "A" /\ s[2] = "ACUTE" THEN <<"A_ACUTE">> \o compose(Tail(Tail(s)))
    ELSE <<Head(s)>> \o compose(Tail(s))

\* String.prototype.normalize('NFKC'): decomposition, then composition.
NFKC(name) == compose(Flatten([i \in DOMAIN name |-> decompose(name[i])]))

\* emojiRegex = /\p{So}/gu
emojiRegex(c) == c \in {"STAR"}

\* whitespaceRegex = /[\s]/g
whitespaceRegex(c) == c \in {"SP"}

\* nonStandardCharsRegex = /[^\w\s\p{P}\p{S}..]/gu : the code points that are
\* no word character, no whitespace, no punctuation and no symbol.
nonStandardCharsRegex(c) == c \notin {"a", "b", "A", "SP", "STAR", "BANG"}

\* Confusables.get(char): the mapped string, or <<>> (undefined) without one.
Confusables(c) == IF c = "CYR_A" THEN <<"a">> ELSE <<>>

\* String.prototype.toLowerCase(), per code point.
toLowerCase(c) ==
    CASE c = "A"       -> "a"
      [] c = "A_ACUTE" -> "a_ACUTE"
      [] OTHER         -> c

ReplaceConfusable(c) ==
    IF nonStandardCharsRegex(c) /\ Confusables(c) # <<>> THEN Confusables(c) ELSE <<c>>

sanitizeUsername(name) ==
    LET normalized == NFKC(name)
        noEmoji    == SelectSeq(normalized, LAMBDA c : ~emojiRegex(c))
        noSpace    == SelectSeq(noEmoji, LAMBDA c : ~whitespaceRegex(c))
        latin      == Flatten([i \in DOMAIN noSpace |-> ReplaceConfusable(noSpace[i])])
    IN  [i \in DOMAIN latin |-> toLowerCase(latin[i])]

----------------------------------------------------------------------------
(* Configuration store.                                                     *)

PROTECTED_ROLE == "PROTECTED_ROLE"
ALLOWLIST_ROLE == "ALLOWLIST_ROLE"
ALLOWLIST_USER == "ALLOWLIST_USER"

\* The guild the bot serves and another server whose records share the collection.
Guild == "g1"
OtherServer == "g2"
Servers == {Guild, OtherServer}
Roles == {"r1", "r2"}
Candidate == "u1"

SpamFilterConfig(t, id, server) ==
    [objectType |-> t, discordObjectId |-> id, discordServerId |-> server]


\* The records of another server that share the collection.
ForeignRecords ==
    { SpamFilterConfig(ALLOWLIST_USER, Candidate, OtherServer),
      SpamFilterConfig(ALLOWLIST_ROLE, "r1", OtherServer),
      SpamFilterConfig(PROTECTED_ROLE, "r2", OtherServer) }

\* The candidate's allowlist record; the configuration service writes no
\* ALLOWLIST_USER record, so it is in the collection from the start or never.
AllowlistUserRecords == { SpamFilterConfig(ALLOWLIST_USER, Candidate, Guild) }

\* The administrators that run the configuration command.
Admins == {"a1", "a2"}

\* The role arrays a call of the configuration service may get.
Batches == UNION {[1..n -> Roles] : n \in 1..MaxBatch}

\* A name that sanitizeUsername has not been applied to yet.
Raw(name) == [stage |-> "raw", name |-> name, once |-> <<>>, twice |-> <<>>]

\* No configuration command has been run.
NoWizard ==
    [pc |-> "none", authorized |-> FALSE, roles |-> <<>>, replyAt |-> 0, elapsed |-> 0,
     reaction |-> "none", error |-> "none", logged |-> "none", dbConnected |-> FALSE,
     writes |-> 0, stored |-> 0, confirmation |-> "none", reply |-> "none"]

\* No userUpdate event has arrived.
NoEvent ==
    [pc |-> "none", usernameChanged |-> FALSE, inGuild |-> FALSE, isBanklessDAO |-> FALSE,
     runs |-> 0, error |-> "none", logged |-> FALSE, promise |-> "pending"]

\* The two calls of runUsernameSpamFilter that userUpdate events for the same
\* member start.
Evaluations == {"e1", "e2"}

\* An evaluation that has not started: its position, whether it found a
\* match, what it returned, the outcomes of its DM and of its ban and whether
\* the member was already banned when they were attempted, the number of
\* member.ban calls.
NotStarted ==
    [pc |-> "idle", matched |-> FALSE, returned |-> "none",
     dmResult |-> "none", dmAfterBan |-> FALSE,
     banResult |-> "none", banAfterBan |-> FALSE, bans |-> 0]

\* The role arrays of the calls that run while the engine evaluates: one for
\* each selection of roles in the command's options.
Selections == {<<"r1">>, <<"r2">>, <<"r1", "r2">>}

\* No call of the configuration service is running or has run.
NoCall ==
    [op |-> "none", roles |-> <<>>, objectType |-> "none", i |-> 0,
     error |-> "none", nInserted |-> 0, deletedCount |-> 0, result |-> "none"]

\* The unique index of the collection on (objectType, discordObjectId,
\* discordServerId): the insert of a record that is already stored is rejected
\* with a duplicate-key error (code 11000).
duplicateKey(coll, doc) == BagIn(doc, coll)

\* Collection.insertMany(docs, {ordered}): the documents are written one by
\* one; a rejected document is a write error, after which an ordered insert
\* stops and an unordered one goes on.  The result is the collection, the
\* number of documents inserted and the number of write errors (the call
\* rejects with a BulkWriteError if there is any).
RECURSIVE insertMany(_, _, _)
insertMany(coll, docs, ordered) ==
    IF docs = <<>> THEN [coll |-> coll, nInserted |-> 0, writeErrors |-> 0]
    ELSE IF duplicateKey(coll, Head(docs))
         THEN IF ordered THEN [coll |-> coll, nInserted |-> 0, writeErrors |-> 1]
              ELSE LET rest == insertMany(coll, Tail(docs), ordered)
                   IN  [rest EXCEPT !.writeErrors = @ + 1]
         ELSE LET rest == insertMany(coll (+) SetToBag({Head(docs)}), Tail(docs), ordered)
              IN  [rest EXCEPT !.nInserted = @ + 1]

\* Mutant of deleteOne: the filter leaves out objectType.
deleteOne_noObjectType(coll, filter) ==
    LET matches == {x \in BagToSet(coll) : /\ x.discordObjectId = filter.discordObjectId
                                           /\ x.discordServerId = filter.discordServerId}
    IN  IF matches # {}
        THEN [coll |-> coll (-) SetToBag({CHOOSE x \in matches : TRUE}), deletedCount |-> 1]
        ELSE [coll |-> coll, deletedCount |-> 0]

\* Collection.deleteOne(filter): one document that has the filter's
\* objectType, discordObjectId and discordServerId, if there is any, is
\* deleted; the result is the collection and the number of documents deleted.
deleteOne(coll, filter) ==
    IF BagIn(filter, coll)
    THEN [coll |-> coll (-) SetToBag({filter}), deletedCount |-> 1]
    ELSE [coll |-> coll, deletedCount |-> 0]

----------------------------------------------------------------------------
(* Guild directory.                                                         *)

\* The members of the guild other than the candidate, with the roles they hold.
GuildMembers ==
    { [id |-> "p1", roles |-> {"r1"}, nickname |-> NULL,
       username |-> <<"CYR_A">>],
      [id |-> "p2", roles |-> {"r2"}, nickname |-> <<"STAR", "SP">>,
       username |-> <<"A">>],
      [id |-> "p3", roles |-> {"r1"}, nickname |-> <<"FW_A", "SP", "a">>,
       username |-> <<"b">>] }

\* The code points a candidate's names are drawn from.
CandidateChars == {"A", "STAR"}

RECURSIVE NamesOfLen(_)
NamesOfLen(n) ==
    IF n = 0 THEN {<<>>}
    ELSE {<<c>> \o s : c \in CandidateChars, s \in NamesOfLen(n - 1)}

Names == UNION {NamesOfLen(n) : n \in 1..MaxLen}

\* The GuildMember objects an identity-change event may carry.
Candidates ==
    [id : {Candidate}, guild : {Guild}, roles : SUBSET Roles,
     nickname : Names \cup {NULL}, username : Names, bannable : BOOLEAN]

NoMember ==
    [id |-> Candidate, guild |-> Guild, roles |-> {}, nickname |-> NULL,
     username |-> <<"b">>, bannable |-> FALSE]

\* The directory entry of a GuildMember object.
Entry(m) ==
    [id |-> m.id, roles |-> m.roles, nickname |-> m.nickname, username |-> m.username]

\* ServiceUtils.hasSomeRole(member, roles)
hasSomeRole(m, roles) == m.roles \cap roles # {}

\* ServiceUtils.getMembersWithRoles(guild, roles): the current members of the
\* guild, the candidate among them, that hold one of the roles.
getMembersWithRoles(m, roles) ==
    {p \in GuildMembers \cup {Entry(m)} : p.roles \cap roles # {}}

----------------------------------------------------------------------------
VARIABLES
    store,           \* the usernameSpamFilter collection: a bag of records
    pc,              \* the position of the evaluation in runUsernameSpamFilter
    member,          \* the GuildMember under evaluation
    protectedRoles,  \* the role ids returned by getProtectedRolesForServer
    protectedNames,  \* the sanitized display names of the protected members
    nickname,        \* the sanitized nickname of the candidate, or NULL
    username,        \* the sanitized username of the candidate
    trace,           \* the calls made to collaborators and the lines logged
    returned,        \* "none", "true", "false" or "throws"
    dmResult,        \* outcome of member.send: "none", "ok" or "failed"
    banResult,       \* outcome of member.ban: "none", "ok" or "failed"
    handler,         \* how the last userUpdate handler ended: "none" while it
                     \* has not, "returned", "caught" or "rejected"
    call,            \* per administrator, the running or last call of
                     \* addRolesToUsernameSpamFilter / removeRolesFromUsernameSpamFilter
    evals,           \* two evaluations of the same member that run side by side
    banned,          \* the member is on the guild's ban list
    sanitizing,      \* a name, and what sanitizeUsername made of it and of its result
    wizard,          \* a run of the configuration command and its wizard
    event            \* a userUpdate event and what its handler does with it

vars == <<store, pc, member, protectedRoles, protectedNames,
          nickname, username, trace, returned, dmResult, banResult, handler,
          call, evals, banned, sanitizing, wizard, event>>

\* What the engine and the configuration service leave alone.
aside == <<sanitizing, wizard, event>>

\* The state of two evaluations of one member and of the guild's ban list.
twin == <<evals, banned>>

\* The state of one evaluation by the engine and of its handler.
evaluation == <<pc, member, protectedRoles, protectedNames, nickname, username,
                trace, returned, dmResult, banResult, handler>>

locals == <<protectedRoles, protectedNames, nickname, username>>

\* Positions at which runUsernameSpamFilter has ended: its return statements
\* (named by their source line) and the rejected promise.
Finished == {"return25", "return32", "return76", "return79", "threw"}

Init ==
    /\ store \in {SetToBag(u \cup ForeignRecords) : u \in SUBSET AllowlistUserRecords}
    /\ pc = "idle"
    /\ member = NoMember
    /\ protectedRoles = {}
    /\ protectedNames = {}
    /\ nickname = NULL
    /\ username = <<>>
    /\ trace = <<>>
    /\ returned = "none"
    /\ dmResult = "none"
    /\ banResult = "none"
    /\ handler = "none"
    /\ call = [a \in Admins |-> NoCall]
    /\ evals = [e \in Evaluations |-> NotStarted]
    /\ banned = FALSE
    /\ sanitizing = Raw(<<>>)
    /\ wizard = NoWizard
    /\ event = NoEvent

----------------------------------------------------------------------------
(* Pure parts of the engine.                                                *)

\* Collection.find(filter): the documents of the collection that match.
find(st, objectType, server) ==
    {x \in BagToSet(st) : x.objectType = objectType /\ x.discordServerId = server}

\* Mutant of memberOnAllowlist: the query names the wrong object type.
memberOnAllowlist_wrongType(st, m) ==
    \E rec \in find(st, ALLOWLIST_ROLE, m.guild) : rec.discordObjectId = m.id

\* memberOnAllowlist: findOne({ALLOWLIST_USER, member.user.id, member.guild.id})
memberOnAllowlist(st, m) ==
    \E rec \in find(st, ALLOWLIST_USER, m.guild) : rec.discordObjectId = m.id

\* Mutant of roleOnAllowlist: the member must hold every allowlisted role.
roleOnAllowlist_everyRole(st, m) ==
    LET allowlistRoles ==
            {rec.discordObjectId : rec \in find(st, ALLOWLIST_ROLE, m.guild)}
    IN  allowlistRoles # {} /\ allowlistRoles \subseteq m.roles

\* Mutant of roleOnAllowlist: the query is not scoped to the guild.
roleOnAllowlist_anyServer(st, m) ==
    LET allowlistRoleList == {x \in BagToSet(st) : x.objectType = ALLOWLIST_ROLE}
        allowlistRoles == {rec.discordObjectId : rec \in allowlistRoleList}
    IN  hasSomeRole(m, allowlistRoles)

\* roleOnAllowlist: the member has one of the ids of
\* find({ALLOWLIST_ROLE, member.guild.id})
roleOnAllowlist(st, m) ==
    LET allowlistRoleList == find(st, ALLOWLIST_ROLE, m.guild)
        allowlistRoles == {rec.discordObjectId : rec \in allowlistRoleList}
    IN  hasSomeRole(m, allowlistRoles)

\* Mutant of getProtectedRolesForServer: the roles are read once, when the
\* process starts and no role is configured, and kept.
getProtectedRolesForServer_atStartup(st, m) ==
    {rec.discordObjectId : rec \in find(SetToBag(ForeignRecords), PROTECTED_ROLE, m.guild)}

\* Mutant of getProtectedRolesForServer: the query is not scoped to the guild.
getProtectedRolesForServer_anyServer(st, m) ==
    {rec.discordObjectId : rec \in {x \in BagToSet(st) : x.objectType = PROTECTED_ROLE}}

\* getProtectedRolesForServer: the ids of find({PROTECTED_ROLE, member.guild.id})
getProtectedRolesForServer(st, m) ==
    {rec.discordObjectId : rec \in find(st, PROTECTED_ROLE, m.guild)}

\* Mutant of protectedName: the username is taken whether or not the member
\* has a nickname.
protectedName_username(p) == sanitizeUsername(p.username)

\* The display name the engine sanitizes for a protected member.
protectedName(p) ==
    IF p.nickname # NULL THEN sanitizeUsername(p.nickname)
    ELSE sanitizeUsername(p.username)

\* The candidate's sanitized nickname: null when no nickname is set.
candidateNickname(m) ==
    IF m.nickname # NULL THEN sanitizeUsername(m.nickname) ELSE NULL

\* A JavaScript string used as a condition: null and "" are falsy.
Truthy(s) == s # NULL /\ s # <<>>

\* Mutant of isMatch: a set nickname alone satisfies the condition.
isMatch_nicknameSet(nick, user, names) ==
    Truthy(nick) \/ user \in names

\* Mutant of isMatch: the nickname is looked up without the test of its
\* truthiness.
isMatch_includesOnly(nick, user, names) ==
    (nick # NULL /\ nick \in names) \/ user \in names

\* The condition of the `if` that decides the ban.
isMatch(nick, user, names) ==
    (Truthy(nick) /\ nick \in names) \/ user \in names

----------------------------------------------------------------------------
(* runUsernameSpamFilter, one action per await.                             *)

Return(line, value) ==
    /\ pc' = line
    /\ returned' = value

\* Mutant of RunUsernameSpamFilter: member.bannable is not tested.
RunUsernameSpamFilter_noBannableTest(m) ==
    /\ pc = "idle"
    /\ member' = m
    /\ protectedRoles' = {}
    /\ protectedNames' = {}
    /\ nickname' = NULL
    /\ username' = <<>>
    /\ dmResult' = "none"
    /\ banResult' = "none"
    /\ handler' = "none"
    /\ trace' = <<>>
    /\ pc' = "memberOnAllowlist"
    /\ returned' = "none"
    /\ UNCHANGED <<store, call, twin, aside>>

\* A userUpdate event reaches the engine: runUsernameSpamFilter(member) is
\* called and skipUsernameSpamFilter tests member.bannable.
RunUsernameSpamFilter(m) ==
    /\ pc = "idle"
    /\ member' = m
    /\ protectedRoles' = {}
    /\ protectedNames' = {}
    /\ nickname' = NULL
    /\ username' = <<>>
    /\ dmResult' = "none"
    /\ banResult' = "none"
    /\ handler' = "none"
    /\ IF ~m.bannable
       THEN /\ trace' = <<"log:not bannable">>
            /\ Return("return25", "false")
       ELSE /\ trace' = <<>>
            /\ pc' = "memberOnAllowlist"
            /\ returned' = "none"
    /\ UNCHANGED <<store, call, twin, aside>>

\* skipUsernameSpamFilter: await this.memberOnAllowlist(member)
MemberOnAllowlist ==
    /\ pc = "memberOnAllowlist"
    /\ IF memberOnAllowlist(store, member)
       THEN /\ trace' = trace \o <<"findOne:ALLOWLIST_USER", "log:on the allowlist">>
            /\ Return("return25", "false")
       ELSE /\ trace' = Append(trace, "findOne:ALLOWLIST_USER")
            /\ pc' = "roleOnAllowlist"
            /\ UNCHANGED returned
    /\ UNCHANGED <<aside, twin, call, handler, store, member, locals, dmResult, banResult>>

\* skipUsernameSpamFilter: await this.roleOnAllowlist(member)
RoleOnAllowlist ==
    /\ pc = "roleOnAllowlist"
    /\ IF roleOnAllowlist(store, member)
       THEN /\ trace' = trace \o <<"find:ALLOWLIST_ROLE", "log:role on the allowlist">>
            /\ Return("return25", "false")
       ELSE /\ trace' = Append(trace, "find:ALLOWLIST_ROLE")
            /\ pc' = "getProtectedRolesForServer"
            /\ UNCHANGED returned
    /\ UNCHANGED <<aside, twin, call, handler, store, member, locals, dmResult, banResult>>

\* const protectedRoles = await this.getProtectedRolesForServer(member)
GetProtectedRolesForServer ==
    /\ pc = "getProtectedRolesForServer"
    /\ protectedRoles' = getProtectedRolesForServer(store, member)
    /\ trace' = Append(trace, "find:PROTECTED_ROLE")
    /\ IF protectedRoles' = {}
       THEN Return("return32", "false")
       ELSE /\ pc' = "getMembersWithRoles"
            /\ UNCHANGED returned
    /\ UNCHANGED <<aside, twin, call, handler, store, member, protectedNames, nickname, username,
                   dmResult, banResult>>

\* await ServiceUtils.getMembersWithRoles(...), then the names are sanitized
\* and compared; the lookup may reject, and nothing catches it.
GetMembersWithRoles ==
    /\ pc = "getMembersWithRoles"
    /\ \E ok \in BOOLEAN :
         IF ok
         THEN /\ protectedNames' =
                    {protectedName(p) : p \in getMembersWithRoles(member, protectedRoles)}
              /\ nickname' = candidateNickname(member)
              /\ username' = sanitizeUsername(member.username)
              /\ trace' = Append(trace, "getMembersWithRoles")
              /\ IF isMatch(nickname', username', protectedNames')
                 THEN /\ pc' = "fetch58"
                      /\ UNCHANGED returned
                 ELSE Return("return79", "false")
         ELSE /\ trace' = Append(trace, "getMembersWithRoles")
              /\ Return("threw", "throws")
              /\ UNCHANGED <<protectedNames, nickname, username>>
    /\ UNCHANGED <<aside, twin, call, handler, store, member, protectedRoles, dmResult, banResult>>

\* await member.guild.members.fetch(<administrator contact>), twice; a fetch
\* may reject, and nothing catches it.
FetchAdminContact ==
    /\ pc \in {"fetch58", "fetch59"}
    /\ trace' = Append(trace, "fetch")
    /\ \E ok \in BOOLEAN :
         IF ok
         THEN /\ pc' = IF pc = "fetch58" THEN "fetch59" ELSE "send"
              /\ UNCHANGED returned
         ELSE Return("threw", "throws")
    /\ UNCHANGED <<aside, twin, call, handler, store, member, locals, dmResult, banResult>>

\* Mutant of SendWarning: the rejection of member.send is not caught.
SendWarning_noCatch ==
    /\ pc = "send"
    /\ \E ok \in BOOLEAN :
         /\ dmResult' = IF ok THEN "ok" ELSE "failed"
         /\ trace' = Append(trace, "send")
         /\ IF ok THEN pc' = "ban" /\ UNCHANGED returned
            ELSE Return("threw", "throws")
    /\ UNCHANGED <<aside, twin, call, handler, store, member, locals, banResult>>

\* await member.send(...).catch(e => Log.log(...))
SendWarning ==
    /\ pc = "send"
    /\ \E ok \in BOOLEAN :
         /\ dmResult' = IF ok THEN "ok" ELSE "failed"
         /\ trace' = IF ok THEN Append(trace, "send")
                     ELSE trace \o <<"send", "log:Unable to message user">>
    /\ pc' = "ban"
    /\ UNCHANGED <<aside, twin, call, handler, store, member, locals, returned, banResult>>

\* Mutant of Ban: the ban is issued where the DM should be, before it.
Ban_beforeDm ==
    /\ pc \in {"send", "ban"}
    /\ \E ok \in BOOLEAN :
         /\ banResult' = IF ok THEN "ok" ELSE "failed"
         /\ trace' = trace \o <<"ban", IF ok THEN "log:Auto-banned user"
                                       ELSE "log:Unable to auto-ban user">>
    /\ Return("return76", "true")
    /\ UNCHANGED <<aside, twin, call, handler, store, member, locals, dmResult>>

\* Mutant of Ban: the rejection of member.ban is not caught.
Ban_noCatch ==
    /\ pc = "ban"
    /\ \E ok \in BOOLEAN :
         /\ banResult' = IF ok THEN "ok" ELSE "failed"
         /\ IF ok
            THEN /\ trace' = trace \o <<"ban", "log:Auto-banned user">>
                 /\ Return("return76", "true")
            ELSE /\ trace' = Append(trace, "ban")
                 /\ Return("threw", "throws")
    /\ UNCHANGED <<aside, twin, call, handler, store, member, locals, dmResult>>

\* await member.ban(...).then(() => Log.log(...)).catch(e => Log.log(...)); return true
Ban ==
    /\ pc = "ban"
    /\ \E ok \in BOOLEAN :
         /\ banResult' = IF ok THEN "ok" ELSE "failed"
         /\ trace' = trace \o <<"ban", IF ok THEN "log:Auto-banned user"
                                       ELSE "log:Unable to auto-ban user">>
    /\ Return("return76", "true")
    /\ UNCHANGED <<aside, twin, call, handler, store, member, locals, dmResult>>

\* Mutant of UserUpdateReturns: execute has no try/catch, the rejection of
\* the engine rejects the handler's promise.
UserUpdateReturns_noCatch ==
    /\ pc \in Finished
    /\ pc' = "idle"
    /\ handler' = IF returned = "throws" THEN "rejected" ELSE "returned"
    /\ member' = NoMember
    /\ protectedRoles' = {}
    /\ protectedNames' = {}
    /\ nickname' = NULL
    /\ username' = <<>>
    /\ trace' = <<>>
    /\ returned' = "none"
    /\ dmResult' = "none"
    /\ banResult' = "none"
    /\ UNCHANGED <<store, call, twin, aside>>

\* The userUpdate handler ends: the engine returned, or its rejection was
\* caught by execute's try/catch and logged with LogUtils.logError; either
\* way the promise of execute resolves.  The evaluation's objects are dropped.
UserUpdateReturns ==
    /\ pc \in Finished
    /\ pc' = "idle"
    /\ handler' = IF returned = "throws" THEN "caught" ELSE "returned"
    /\ member' = NoMember
    /\ protectedRoles' = {}
    /\ protectedNames' = {}
    /\ nickname' = NULL
    /\ username' = <<>>
    /\ trace' = <<>>
    /\ returned' = "none"
    /\ dmResult' = "none"
    /\ banResult' = "none"
    /\ UNCHANGED <<store, call, twin, aside>>

----------------------------------------------------------------------------
(* The store mutations of the configuration service.                        *)

RoleTypes == {PROTECTED_ROLE, ALLOWLIST_ROLE}

\* Mutant of insertOptions: the insert is ordered.
insertOptions_ordered == [ordered |-> TRUE]

\* The options of the insertMany call.
insertOptions == [ordered |-> FALSE]

\* The records addRolesToUsernameSpamFilter builds, one per role, in order.
usernameSpamFilterList(roles, objectType) ==
    [k \in DOMAIN roles |-> SpamFilterConfig(objectType, roles[k], Guild)]

\* The collection after deleteOne for each of the roles, in order.
RECURSIVE deleteEach(_, _, _)
deleteEach(coll, roles, objectType) ==
    IF roles = <<>> THEN coll
    ELSE deleteEach(deleteOne(coll, SpamFilterConfig(objectType, Head(roles), Guild)).coll,
                    Tail(roles), objectType)

\* A whole call of addRolesToUsernameSpamFilter, as the engine sees it: the
\* records of the batch are inserted, a duplicate-key rejection is caught.
addRolesToUsernameSpamFilter(roles, objectType) ==
    /\ store' = insertMany(store, usernameSpamFilterList(roles, objectType),
                           insertOptions.ordered).coll
    /\ UNCHANGED <<evaluation, call, twin, aside>>

\* A whole call of removeRolesFromUsernameSpamFilter, as the engine sees it.
removeRolesFromUsernameSpamFilter(roles, objectType) ==
    /\ store' = deleteEach(store, roles, objectType)
    /\ UNCHANGED <<evaluation, call, twin, aside>>

----------------------------------------------------------------------------
(* The calls of the configuration service, one action per await, for the    *)
(* administrators that run them side by side.                               *)

\* An administrator's earlier call, if any, has ended.
CallEnded(a) == call[a].op = "none" \/ call[a].result # "none"

\* addRolesToUsernameSpamFilter is called: the list of records is built.
AddRolesCalled(a, roles, objectType) ==
    /\ CallEnded(a)
    /\ call' = [call EXCEPT ![a] =
                  [op |-> "add", roles |-> roles, objectType |-> objectType, i |-> 0,
                   error |-> "none", nInserted |-> 0, deletedCount |-> 0, result |-> "none"]]
    /\ UNCHANGED <<store, evaluation, twin, aside>>

\* How a call that has ended is kept: what it was, what it caught, how many
\* documents the database reported as inserted by insertMany and as deleted
\* by the last deleteOne, how it ended.
Ended(op, error, nInserted, deletedCount, result) ==
    [op |-> op, roles |-> <<>>, objectType |-> "none", i |-> 0, error |-> error,
     nInserted |-> nInserted, deletedCount |-> deletedCount, result |-> result]

\* Mutant of InsertMany: the rejection of insertMany is not caught.
InsertMany_noCatch(a) ==
    /\ call[a].op = "add"
    /\ call[a].result = "none"
    /\ LET written == insertMany(store,
                          usernameSpamFilterList(call[a].roles, call[a].objectType),
                          insertOptions.ordered)
       IN  /\ store' = written.coll
           /\ call' = [call EXCEPT ![a] =
                         IF written.writeErrors > 0
                         THEN Ended("add", "BulkWriteError:11000", written.nInserted, 0, "threw")
                         ELSE Ended("add", "none", written.nInserted, 0, "returned")]
    /\ UNCHANGED <<evaluation, twin, aside>>

\* await usernameSpamFilterDb.insertMany(...) in try/catch: a rejection is
\* logged and the function returns; so it does when the insert succeeded.
InsertMany(a) ==
    /\ call[a].op = "add"
    /\ call[a].result = "none"
    /\ \E rejected \in BOOLEAN :
         IF rejected
         THEN \* the database cannot be reached: nothing is written
              /\ call' = [call EXCEPT ![a] = Ended("add", "MongoNetworkError", 0, 0, "returned")]
              /\ UNCHANGED store
         ELSE LET written == insertMany(store,
                                 usernameSpamFilterList(call[a].roles, call[a].objectType),
                                 insertOptions.ordered)
              IN  /\ store' = written.coll
                  /\ call' = [call EXCEPT ![a] =
                                IF written.writeErrors > 0
                                THEN Ended("add", "BulkWriteError:11000",
                                           written.nInserted, 0, "returned")
                                ELSE Ended("add", "none", written.nInserted, 0, "returned")]
    /\ UNCHANGED <<evaluation, twin, aside>>

\* removeRolesFromUsernameSpamFilter is called.
RemoveRolesCalled(a, roles, objectType) ==
    /\ CallEnded(a)
    /\ call' = [call EXCEPT ![a] =
                  [op |-> "remove", roles |-> roles, objectType |-> objectType, i |-> 1,
                   error |-> "none", nInserted |-> 0, deletedCount |-> 0, result |-> "none"]]
    /\ UNCHANGED <<store, evaluation, twin, aside>>

\* await usernameSpamFilterDb.deleteOne(...) for the next role of the loop,
\* in try/catch: a rejection is logged and ends the loop; after the last role
\* the function returns.
DeleteOne(a) ==
    /\ call[a].op = "remove"
    /\ call[a].result = "none"
    /\ \E rejected \in BOOLEAN :
         IF rejected
         THEN /\ call' = [call EXCEPT ![a] =
                            Ended("remove", "MongoNetworkError", 0, 0, "returned")]
              /\ UNCHANGED store
         ELSE LET filter == SpamFilterConfig(call[a].objectType,
                                             call[a].roles[call[a].i], Guild)
                  result == deleteOne(store, filter)
              IN  /\ store' = result.coll
                  /\ call' = [call EXCEPT ![a] =
                                IF call[a].i = Len(call[a].roles)
                                THEN Ended("remove", "none", 0, result.deletedCount,
                                           "returned")
                                ELSE [@ EXCEPT !.i = @ + 1]]
    /\ UNCHANGED <<evaluation, twin, aside>>

----------------------------------------------------------------------------
Next ==
    \/ \E m \in Candidates : RunUsernameSpamFilter(m)
    \/ MemberOnAllowlist
    \/ RoleOnAllowlist
    \/ GetProtectedRolesForServer
    \/ GetMembersWithRoles
    \/ FetchAdminContact
    \/ SendWarning
    \/ Ban
    \/ UserUpdateReturns
    \/ \E roles \in Selections, t \in RoleTypes :
         addRolesToUsernameSpamFilter(roles, t)
    \/ \E roles \in Selections, t \in RoleTypes :
         removeRolesFromUsernameSpamFilter(roles, t)

Spec == Init /\ [][Next]_vars

----------------------------------------------------------------------------
(* Two evaluations of the same member, started by two userUpdate events,    *)
(* whose awaits interleave.  The store does not change meanwhile.           *)

\* An evaluation ends at a return statement or with a rejected promise.
EndAt(e, line, value) ==
    evals' = [evals EXCEPT ![e].pc = line, ![e].returned = value]

\* runUsernameSpamFilter up to the `if` of the ban: the skip test, the
\* protected roles, the protected members (the lookup may reject), the names.
Evaluate(e) ==
    /\ evals[e].pc = "idle"
    /\ LET roles == getProtectedRolesForServer(store, member)
           names == {protectedName(p) : p \in getMembersWithRoles(member, roles)}
       IN  IF \/ ~member.bannable
              \/ memberOnAllowlist(store, member)
              \/ roleOnAllowlist(store, member)
           THEN EndAt(e, "return25", "false")
           ELSE IF roles = {}
           THEN EndAt(e, "return32", "false")
           ELSE \E ok \in BOOLEAN :
                  IF ~ok THEN EndAt(e, "threw", "throws")
                  ELSE IF isMatch(candidateNickname(member),
                                  sanitizeUsername(member.username), names)
                  THEN evals' = [evals EXCEPT ![e].pc = "fetch58", ![e].matched = TRUE]
                  ELSE EndAt(e, "return79", "false")
    /\ UNCHANGED <<banned, store, call, evaluation, aside>>

\* await member.guild.members.fetch(<administrator contact>), twice; a fetch
\* may reject, and nothing catches it.
FetchAdminContactOf(e) ==
    /\ evals[e].pc \in {"fetch58", "fetch59"}
    /\ \E ok \in BOOLEAN :
         IF ok
         THEN evals' = [evals EXCEPT ![e].pc = IF @ = "fetch58" THEN "fetch59" ELSE "send"]
         ELSE EndAt(e, "threw", "throws")
    /\ UNCHANGED <<banned, store, call, evaluation, aside>>

\* await member.send(...).catch(e => Log.log(...)): the DM may fail, and does
\* so for a member the other evaluation has banned unless the member can
\* still be reached.
SendWarningOf(e) ==
    /\ evals[e].pc = "send"
    /\ \E ok \in BOOLEAN :
         evals' = [evals EXCEPT ![e].pc = "ban",
                                ![e].dmResult = IF ok THEN "ok" ELSE "failed",
                                ![e].dmAfterBan = banned]
    /\ UNCHANGED <<banned, store, call, evaluation, aside>>

\* Mutant of BanOf: the rejection of member.ban is not caught.
BanOf_noCatch(e) ==
    /\ evals[e].pc = "ban"
    /\ \E ok \in BOOLEAN :
         /\ evals' = [evals EXCEPT ![e].pc = IF ok THEN "return76" ELSE "threw",
                                   ![e].returned = IF ok THEN "true" ELSE "throws",
                                   ![e].banResult = IF ok THEN "ok" ELSE "failed",
                                   ![e].banAfterBan = banned,
                                   ![e].bans = @ + 1]
         /\ banned' = (banned \/ ok)
    /\ UNCHANGED <<store, call, evaluation, aside>>

\* await member.ban(...).then(...).catch(e => Log.log(...)); return true.
\* The ban may fail, also for a member the other evaluation has banned.
BanOf(e) ==
    /\ evals[e].pc = "ban"
    /\ \E ok \in BOOLEAN :
         /\ evals' = [evals EXCEPT ![e].pc = "return76",
                                   ![e].returned = "true",
                                   ![e].banResult = IF ok THEN "ok" ELSE "failed",
                                   ![e].banAfterBan = banned,
                                   ![e].bans = @ + 1]
         /\ banned' = (banned \/ ok)
    /\ UNCHANGED <<store, call, evaluation, aside>>

\* Two userUpdate events for one member; the store lists any of the roles as
\* protected.
InitTwo ==
    /\ store \in {SetToBag(ForeignRecords
                            \cup {SpamFilterConfig(PROTECTED_ROLE, r, Guild) : r \in rs})
                   : rs \in SUBSET Roles}
    /\ member \in Candidates
    /\ pc = "idle"
    /\ protectedRoles = {}
    /\ protectedNames = {}
    /\ nickname = NULL
    /\ username = <<>>
    /\ trace = <<>>
    /\ returned = "none"
    /\ dmResult = "none"
    /\ banResult = "none"
    /\ handler = "none"
    /\ call = [a \in Admins |-> NoCall]
    /\ evals = [e \in Evaluations |-> NotStarted]
    /\ banned = FALSE
    /\ sanitizing = Raw(<<>>)
    /\ wizard = NoWizard
    /\ event = NoEvent

NextTwo ==
    \/ \E e \in Evaluations : Evaluate(e)
    \/ \E e \in Evaluations : FetchAdminContactOf(e)
    \/ \E e \in Evaluations : SendWarningOf(e)
    \/ \E e \in Evaluations : BanOf(e)

SpecTwo == InitTwo /\ [][NextTwo]_vars

----------------------------------------------------------------------------
(* The legacy configuration flow, which shares the collection.              *)

\* UsernameSpamFilterType.HIGH_RANKING_ROLE, the object type the legacy flow
\* stores for a role to protect: a value of the legacy vocabulary, other
\* than the values of SpamFilterConfigType.
HIGH_RANKING_ROLE == "HIGH_RANKING_ROLE"

\* The object types the legacy flow passes to its add and remove functions.
LegacyRoleTypes == {HIGH_RANKING_ROLE, ALLOWLIST_ROLE}

\* A whole call of the legacy addRolesToUsernameSpamFilter.
legacyAddRolesToUsernameSpamFilter(roles, objectType) ==
    /\ store' = insertMany(store, usernameSpamFilterList(roles, objectType), FALSE).coll
    /\ UNCHANGED <<evaluation, call, twin, aside>>

\* A whole call of the legacy removeRolesFromUsernameSpamFilter.
legacyRemoveRolesFromUsernameSpamFilter(roles, objectType) ==
    /\ store' = deleteEach(store, roles, objectType)
    /\ UNCHANGED <<evaluation, call, twin, aside>>

\* The engine, the configuration service and the legacy flow.
NextLegacy ==
    \/ Next
    \/ \E roles \in Selections, t \in LegacyRoleTypes :
         legacyAddRolesToUsernameSpamFilter(roles, t)
    \/ \E roles \in Selections, t \in LegacyRoleTypes :
         legacyRemoveRolesFromUsernameSpamFilter(roles, t)

SpecLegacy == Init /\ [][NextLegacy]_vars

----------------------------------------------------------------------------
(* sanitizeUsername alone, applied to a name and then to its own result.    *)

RECURSIVE StringsOfLen(_)
StringsOfLen(n) ==
    IF n = 0 THEN {<<>>}
    ELSE {<<c>> \o s : c \in CodePoints, s \in StringsOfLen(n - 1)}

\* The strings sanitizeUsername is given.
Strings == UNION {StringsOfLen(n) : n \in 0..MaxName}

InitSanitize ==
    /\ store = SetToBag(ForeignRecords)
    /\ pc = "idle"
    /\ member = NoMember
    /\ protectedRoles = {}
    /\ protectedNames = {}
    /\ nickname = NULL
    /\ username = <<>>
    /\ trace = <<>>
    /\ returned = "none"
    /\ dmResult = "none"
    /\ banResult = "none"
    /\ handler = "none"
    /\ call = [a \in Admins |-> NoCall]
    /\ evals = [e \in Evaluations |-> NotStarted]
    /\ banned = FALSE
    /\ sanitizing \in {Raw(name) : name \in Strings}
    /\ wizard = NoWizard
    /\ event = NoEvent

\* sanitizeUsername(name)
SanitizeUsername ==
    /\ sanitizing.stage = "raw"
    /\ sanitizing' = [sanitizing EXCEPT !.stage = "once",
                                        !.once = sanitizeUsername(sanitizing.name)]
    /\ UNCHANGED <<store, evaluation, call, twin, wizard, event>>

\* sanitizeUsername(sanitizeUsername(name))
SanitizeUsernameAgain ==
    /\ sanitizing.stage = "once"
    /\ sanitizing' = [sanitizing EXCEPT !.stage = "twice",
                                        !.twice = sanitizeUsername(sanitizing.once)]
    /\ UNCHANGED <<store, evaluation, call, twin, wizard, event>>

NextSanitize == SanitizeUsername \/ SanitizeUsernameAgain

SpecSanitize == InitSanitize /\ [][NextSanitize]_vars

----------------------------------------------------------------------------
(* The configuration command and its wizard: one run, with the time that    *)
(* passes while it waits for the administrator's reaction, in minutes.      *)

\* The emoji the wizard accepts as a reaction.
Reactions == {"protectRoles", "unprotectRoles", "addToAllowlist", "removeFromAllowlist", "edit"}

\* awaitReactions({time: (6000 * 60)}): the time the collector runs, in ms.
time == 6000 * 60

\* 'Please reply within 60 minutes': the minutes the prompt's footer gives.
FooterMinutes == 60

\* Milliseconds in whole minutes.
Minutes(ms) == ms \div 60000

\* The minute at which the administrator reacts to the prompt: any minute
\* within the time the footer gives, or that time itself (too late).
ReplyTimes == 0..FooterMinutes

\* The command is run: by an administrator or manager or not, with roles in
\* its options or none; the collection may already list a role.
InitWizard ==
    /\ store \in {SetToBag(ForeignRecords \cup rs) :
                     rs \in SUBSET {SpamFilterConfig(PROTECTED_ROLE, "r1", Guild)}}
    /\ pc = "idle"
    /\ member = NoMember
    /\ protectedRoles = {}
    /\ protectedNames = {}
    /\ nickname = NULL
    /\ username = <<>>
    /\ trace = <<>>
    /\ returned = "none"
    /\ dmResult = "none"
    /\ banResult = "none"
    /\ handler = "none"
    /\ call = [a \in Admins |-> NoCall]
    /\ evals = [e \in Evaluations |-> NotStarted]
    /\ banned = FALSE
    /\ sanitizing = Raw(<<>>)
    /\ event = NoEvent
    /\ wizard \in {[NoWizard EXCEPT !.pc = "called", !.authorized = au,
                                      !.roles = rs, !.replyAt = t] :
                      au \in BOOLEAN, rs \in Selections \cup {<<>>}, t \in ReplyTimes}

\* The wizard's promise is rejected with an error.
Throw(e) == wizard' = [wizard EXCEPT !.pc = "rejected", !.error = e]

\* Mutant of CheckPermission: the caller's permission is not tested.
CheckPermission_anyone ==
    /\ wizard.pc = "called"
    /\ wizard' = [wizard EXCEPT !.pc = "dbConnect"]
    /\ UNCHANGED <<store, evaluation, call, twin, sanitizing, event>>

\* if (!(isDiscordAdmin(guildMember) || isDiscordServerManager(guildMember)))
\*     throw new ValidationError(...)
CheckPermission ==
    /\ wizard.pc = "called"
    /\ IF wizard.authorized
       THEN wizard' = [wizard EXCEPT !.pc = "dbConnect"]
       ELSE Throw("ValidationError")
    /\ UNCHANGED <<store, evaluation, call, twin, sanitizing, event>>

\* await retrieveRoles(...); await dbUtils.dbConnect(...); with no role in
\* the options the configured roles are sent and the wizard returns.
DbConnect ==
    /\ wizard.pc = "dbConnect"
    /\ wizard' = [wizard EXCEPT !.dbConnected = TRUE,
                                !.pc = IF wizard.roles = <<>> THEN "resolved"
                                       ELSE "awaitReactions"]
    /\ UNCHANGED <<store, evaluation, call, twin, sanitizing, event>>

\* A minute passes while the collector of awaitReactions runs and the
\* administrator has not reacted.
Tick ==
    /\ wizard.pc = "awaitReactions"
    /\ wizard.elapsed < Minutes(time)
    /\ wizard.elapsed # wizard.replyAt
    /\ wizard' = [wizard EXCEPT !.elapsed = @ + 1]
    /\ UNCHANGED <<store, evaluation, call, twin, sanitizing, event>>

\* The collector's time is over: awaitReactions rejects (errors: ['time']).
TimesOut ==
    /\ wizard.pc = "awaitReactions"
    /\ wizard.elapsed = Minutes(time)
    /\ Throw("time")
    /\ UNCHANGED <<store, evaluation, call, twin, sanitizing, event>>

\* The administrator reacts while the collector runs: collected.first() and
\* the branch of the reaction; edit ends the wizard with a ValidationError.
React ==
    /\ wizard.pc = "awaitReactions"
    /\ wizard.elapsed = wizard.replyAt
    /\ wizard.elapsed < Minutes(time)
    /\ \E r \in Reactions :
         IF r = "edit"
         THEN wizard' = [wizard EXCEPT !.reaction = r, !.pc = "rejected",
                                       !.error = "ValidationError"]
         ELSE wizard' = [wizard EXCEPT !.reaction = r,
                            !.pc = IF r \in {"protectRoles", "addToAllowlist"}
                                   THEN "insertMany" ELSE "deleteOne"]
    /\ UNCHANGED <<store, evaluation, call, twin, sanitizing, event>>

\* The object type of the branch taken.
BranchType ==
    IF wizard.reaction \in {"protectRoles", "unprotectRoles"} THEN PROTECTED_ROLE
    ELSE ALLOWLIST_ROLE

\* Mutant of AddRoles: a rejection of insertMany is thrown on to the wizard.
AddRoles_rethrow ==
    /\ wizard.pc = "insertMany"
    /\ \E rejected \in BOOLEAN :
         LET written == insertMany(store, usernameSpamFilterList(wizard.roles, BranchType),
                                   insertOptions.ordered)
         IN  IF rejected
             THEN /\ wizard' = [wizard EXCEPT !.writes = @ + 1, !.pc = "rejected",
                                              !.error = "MongoNetworkError"]
                  /\ UNCHANGED store
             ELSE /\ store' = written.coll
                  /\ wizard' = [wizard EXCEPT
                        !.writes = @ + 1, !.stored = written.nInserted,
                        !.pc = IF written.writeErrors > 0 THEN "rejected" ELSE "confirm",
                        !.error = IF written.writeErrors > 0
                                  THEN "BulkWriteError:11000" ELSE "none",
                        !.confirmation = IF written.writeErrors > 0 THEN "none"
                                         ELSE "Configuration Added"]
    /\ UNCHANGED <<evaluation, call, twin, sanitizing, event>>

\* await addRolesToUsernameSpamFilter(...): insertMany in try/catch; a
\* rejection, of a duplicate key or of anything else, is logged and the
\* function returns; confirmationMsg is 'Configuration Added'.
AddRoles ==
    /\ wizard.pc = "insertMany"
    /\ \E rejected \in BOOLEAN :
         LET written == insertMany(store, usernameSpamFilterList(wizard.roles, BranchType),
                                   insertOptions.ordered)
         IN  IF rejected
             THEN /\ wizard' = [wizard EXCEPT !.writes = @ + 1, !.pc = "confirm",
                                              !.logged = "MongoNetworkError",
                                              !.confirmation = "Configuration Added"]
                  /\ UNCHANGED store
             ELSE /\ store' = written.coll
                  /\ wizard' = [wizard EXCEPT
                        !.writes = @ + 1, !.stored = written.nInserted, !.pc = "confirm",
                        !.logged = IF written.writeErrors > 0
                                   THEN "BulkWriteError:11000" ELSE "none",
                        !.confirmation = "Configuration Added"]
    /\ UNCHANGED <<evaluation, call, twin, sanitizing, event>>

\* await removeRolesFromUsernameSpamFilter(...): the deleteOne loop in
\* try/catch; confirmationMsg is 'Configuration Removed'.
RemoveRoles ==
    /\ wizard.pc = "deleteOne"
    /\ \E rejected \in BOOLEAN :
         IF rejected
         THEN /\ wizard' = [wizard EXCEPT !.writes = @ + 1, !.pc = "confirm",
                                          !.logged = "MongoNetworkError",
                                          !.confirmation = "Configuration Removed"]
              /\ UNCHANGED store
         ELSE /\ store' = deleteEach(store, wizard.roles, BranchType)
              /\ wizard' = [wizard EXCEPT !.writes = @ + 1, !.pc = "confirm",
                                          !.confirmation = "Configuration Removed"]
    /\ UNCHANGED <<evaluation, call, twin, sanitizing, event>>

\* await guildMember.send({ embeds: [confirmationMsg] }); return
Confirm ==
    /\ wizard.pc = "confirm"
    /\ wizard' = [wizard EXCEPT !.pc = "resolved"]
    /\ UNCHANGED <<store, evaluation, call, twin, sanitizing, event>>

\* handleCommandError: the reply of the command to the wizard's promise.
HandleCommandError ==
    /\ wizard.pc \in {"resolved", "rejected"}
    /\ wizard' = [wizard EXCEPT
          !.pc = "done",
          !.reply = IF wizard.pc = "resolved" THEN "Successfully configured"
                    ELSE IF wizard.error = "ValidationError" THEN "e.message"
                    ELSE "Sorry something is not working"]
    /\ UNCHANGED <<store, evaluation, call, twin, sanitizing, event>>

NextWizard ==
    \/ CheckPermission
    \/ DbConnect
    \/ Tick
    \/ TimesOut
    \/ React
    \/ AddRoles
    \/ RemoveRoles
    \/ Confirm
    \/ HandleCommandError

SpecWizard == InitWizard /\ [][NextWizard]_vars

----------------------------------------------------------------------------
(* The userUpdate handler: one event, from execute to the end of its        *)
(* promise, with the evaluation of the engine it may start.                 *)

\* execute(oldUser, newUser) is called for one event.
InitHandler ==
    /\ store \in {SetToBag(u \cup ForeignRecords) :
                     u \in SUBSET (AllowlistUserRecords \cup
                                     {SpamFilterConfig(PROTECTED_ROLE, "r1", Guild),
                                      SpamFilterConfig(ALLOWLIST_ROLE, "r2", Guild)})}
    /\ pc = "idle"
    /\ member = NoMember
    /\ protectedRoles = {}
    /\ protectedNames = {}
    /\ nickname = NULL
    /\ username = <<>>
    /\ trace = <<>>
    /\ returned = "none"
    /\ dmResult = "none"
    /\ banResult = "none"
    /\ handler = "none"
    /\ call = [a \in Admins |-> NoCall]
    /\ evals = [e \in Evaluations |-> NotStarted]
    /\ banned = FALSE
    /\ sanitizing = Raw(<<>>)
    /\ wizard = NoWizard
    /\ event = [NoEvent EXCEPT !.pc = "execute"]

\* catch (e) { LogUtils.logError('failed to process event userUpdate', e); }
Catch(e) ==
    event' = [event EXCEPT !.pc = "done", !.error = e, !.logged = TRUE,
                           !.promise = "resolved"]

\* execute returns: its promise resolves.
Resolve == event' = [event EXCEPT !.pc = "done", !.promise = "resolved"]

\* if (oldUser.partial) oldUser = await oldUser.fetch();
\* if (newUser.partial) newUser = await newUser.fetch();
FetchPartials ==
    /\ event.pc = "execute"
    /\ \E fetched \in BOOLEAN :
         IF fetched THEN event' = [event EXCEPT !.pc = "compare"]
         ELSE Catch("fetch")
    /\ UNCHANGED <<store, evaluation, call, twin, sanitizing, wizard>>

\* Mutant of CompareUsernames: the usernames are not compared.
CompareUsernames_always ==
    /\ event.pc = "compare"
    /\ \E changed \in BOOLEAN :
         event' = [event EXCEPT !.usernameChanged = changed,
                                !.pc = "getGuildMemberFromUser"]
    /\ UNCHANGED <<store, evaluation, call, twin, sanitizing, wizard>>

\* if (oldUser.username !== newUser.username)
CompareUsernames ==
    /\ event.pc = "compare"
    /\ \E changed \in BOOLEAN :
         IF changed
         THEN event' = [event EXCEPT !.usernameChanged = TRUE,
                                     !.pc = "getGuildMemberFromUser"]
         ELSE Resolve
    /\ UNCHANGED <<store, evaluation, call, twin, sanitizing, wizard>>

\* Mutant of GetGuildMemberFromUser: execute has no try/catch, the rejection
\* of the lookup rejects the promise of execute.
GetGuildMemberFromUser_noCatch ==
    /\ event.pc = "getGuildMemberFromUser"
    /\ \E found \in BOOLEAN :
         IF found
         THEN event' = [event EXCEPT !.inGuild = TRUE, !.pc = "isBanklessDAO"]
         ELSE event' = [event EXCEPT !.pc = "done", !.error = "getGuildMemberFromUser",
                                     !.promise = "rejected"]
    /\ UNCHANGED <<store, evaluation, call, twin, sanitizing, wizard>>

\* guildMember = await ServiceUtils.getGuildMemberFromUser(newUser,
\* process.env.DISCORD_SERVER_ID): the member of the configured guild, or a
\* rejection when the user is not one.
GetGuildMemberFromUser ==
    /\ event.pc = "getGuildMemberFromUser"
    /\ \E found \in BOOLEAN :
         IF found
         THEN event' = [event EXCEPT !.inGuild = TRUE, !.pc = "isBanklessDAO"]
         ELSE Catch("getGuildMemberFromUser")
    /\ UNCHANGED <<store, evaluation, call, twin, sanitizing, wizard>>

\* if (ServiceUtils.isBanklessDAO(guildMember.guild)): the engine is called
\* for the guild the test accepts.
IsBanklessDAO ==
    /\ event.pc = "isBanklessDAO"
    /\ \E accepted \in BOOLEAN :
         IF accepted
         THEN event' = [event EXCEPT !.isBanklessDAO = TRUE, !.runs = @ + 1,
                                     !.pc = "runUsernameSpamFilter"]
         ELSE Resolve
    /\ UNCHANGED <<store, evaluation, call, twin, sanitizing, wizard>>

\* await SpamFilter.runUsernameSpamFilter(guildMember): the call starts the
\* evaluation of the member.
Execute_runUsernameSpamFilter ==
    /\ event.pc = "runUsernameSpamFilter"
    /\ handler = "none"
    /\ member = NoMember
    /\ \E m \in Candidates : RunUsernameSpamFilter(m)

\* The evaluation has ended, with a verdict or with a rejection that the
\* catch of execute logged: execute returns.
Execute_return ==
    /\ event.pc = "runUsernameSpamFilter"
    /\ handler \in {"returned", "caught", "rejected"}
    /\ event' = [event EXCEPT
          !.pc = "done",
          !.error = IF handler = "returned" THEN "none" ELSE "runUsernameSpamFilter",
          !.logged = (handler = "caught"),
          !.promise = IF handler = "rejected" THEN "rejected" ELSE "resolved"]
    /\ UNCHANGED <<store, evaluation, call, twin, sanitizing, wizard>>

NextHandler ==
    \/ FetchPartials
    \/ CompareUsernames
    \/ GetGuildMemberFromUser
    \/ IsBanklessDAO
    \/ Execute_runUsernameSpamFilter
    \/ MemberOnAllowlist
    \/ RoleOnAllowlist
    \/ GetProtectedRolesForServer
    \/ GetMembersWithRoles
    \/ FetchAdminContact
    \/ SendWarning
    \/ Ban
    \/ UserUpdateReturns
    \/ Execute_return

SpecHandler == InitHandler /\ [][NextHandler]_vars

\* The configuration service alone: two administrators, no evaluation.
InitConfig ==
    /\ Init
    /\ store = SetToBag(ForeignRecords \cup AllowlistUserRecords)

NextConfig ==
    \/ \E a \in Admins, roles \in Batches, t \in RoleTypes : AddRolesCalled(a, roles, t)
    \/ \E a \in Admins : InsertMany(a)
    \/ \E a \in Admins, roles \in Batches, t \in RoleTypes : RemoveRolesCalled(a, roles, t)
    \/ \E a \in Admins : DeleteOne(a)

SpecConfig == InitConfig /\ [][NextConfig]_vars

----------------------------------------------------------------------------
(* Vocabulary of the properties.                                            *)

Called(what) == \E i \in DOMAIN trace : trace[i] = what

Count(what) == Cardinality({i \in DOMAIN trace : trace[i] = what})

\* The evaluation has sanitized the names and evaluated the `if` of the ban.
Compared ==
    \/ pc \in {"fetch58", "fetch59", "send", "ban", "return76", "return79"}
    \/ pc = "threw" /\ Called("fetch")

\* The protected-name set the store and the directory define right now.
CurrentProtectedNames ==
    {protectedName(p) :
        p \in getMembersWithRoles(member, getProtectedRolesForServer(store, member))}

\* A name of the candidate is, sanitized, a protected name right now.
NameCollision ==
    \/ sanitizeUsername(member.username) \in CurrentProtectedNames
    \/ /\ member.nickname # NULL
       /\ sanitizeUsername(member.nickname) \in CurrentProtectedNames

\* The same, against the protected names this evaluation computed.
NameProtected ==
    \/ sanitizeUsername(member.username) \in protectedNames
    \/ /\ member.nickname # NULL
       /\ sanitizeUsername(member.nickname) \in protectedNames

----------------------------------------------------------------------------
C3_VerdictIffNameProtected ==
    pc \in {"return76", "return79"} => (returned = "true" <=> NameProtected)

\* C4: an evaluation that computed a match ends at the return after the ban,
\* with the ban attempted exactly once and verdict true.
C4_MatchEndsInBan ==
    (pc \in Finished /\ Compared /\ isMatch(nickname, username, protectedNames))
        => /\ pc = "return76"
           /\ Count("ban") = 1
           /\ returned = "true"

\* C5: a ban call is preceded in the evaluation by the warning DM, which has
\* settled (sent or failed) by then.
C5_DmBeforeBan ==
    /\ \A j \in DOMAIN trace :
         trace[j] = "ban" => \E i \in 1..(j - 1) : trace[i] = "send"
    /\ (pc = "ban" \/ Called("ban")) => dmResult \in {"ok", "failed"}

\* The ban was issued.
C5_Witness == Called("ban") /\ dmResult = "ok"

\* C6: when the warning DM fails, the failure is logged, the evaluation goes
\* on to the ban, and it ends with the ban attempted and verdict true.
C6_DmFailureDoesNotStopBan ==
    dmResult = "failed"
        => /\ Called("log:Unable to message user")
           /\ pc \in {"ban", "return76"}
           /\ pc = "return76" => (Called("ban") /\ returned = "true")

\* The DM failed and the evaluation ended.
C6_Witness == dmResult = "failed" /\ pc = "return76"

C8_NoMatchNoSideEffect ==
    (Compared /\ ~NameProtected)
        => /\ pc = "return79"
           /\ returned = "false"
           /\ ~Called("fetch")
           /\ ~Called("send")
           /\ ~Called("ban")

\* A candidate with a nickname and protected names to compare with got no match.
C8_Witness ==
    /\ pc = "return79"
    /\ member.nickname # NULL
    /\ protectedNames # {}

C10_NotBannableSkipped ==
    (pc # "idle" /\ ~member.bannable)
        => /\ pc = "return25"
           /\ returned = "false"
           /\ ~Called("send")
           /\ ~Called("ban")

\* A candidate that is not bannable, whose name is a protected name, was skipped.
C10_Witness ==
    /\ pc = "return25"
    /\ ~member.bannable
    /\ member.roles = {}
    /\ NameCollision


----------------------------------------------------------------------------
\* The lookup of the protected members rejected and the engine threw there.
LookupFailed == pc = "threw" /\ ~Called("fetch")

\* C11 (as stated): after a failed lookup of the protected members the error
\* reaches the caller of the userUpdate handler: the promise of execute rejects.
C11_LookupFailureReachesDispatcher ==
    [][ (LookupFailed /\ pc' = "idle") => handler' = "rejected" ]_vars

\* C11 (amended): after a failed lookup of the protected members the engine
\* throws to the userUpdate handler without a verdict, having sanitized no name
\* and attempted no DM and no ban; the handler catches and logs the error, and
\* its own promise resolves.
C11_LookupFailureCaughtByHandler ==
    /\ [](LookupFailed => /\ returned = "throws"
                          /\ protectedNames = {}
                          /\ ~Called("send")
                          /\ ~Called("ban"))
    /\ [][ (LookupFailed /\ pc' = "idle") => handler' = "caught" ]_vars

\* The lookup failed in the evaluation of a candidate whose name is protected.
C11_Witness == LookupFailed /\ returned = "throws" /\ NameCollision

----------------------------------------------------------------------------
(* Configuration store.                                                     *)

\* An administrator's add call takes its insertMany step.
AddStep(a) == call[a].op = "add" /\ call[a].result = "none" /\ call'[a].result # "none"

\* The records of the running call of an administrator.
CallRecords(a) ==
    {SpamFilterConfig(call[a].objectType, call[a].roles[k], Guild) : k \in DOMAIN call[a].roles}

\* C12: after any interleaving of the administrators' add and remove calls the
\* store holds at most one record per (objectType, discordObjectId,
\* discordServerId); an add of a role that is already configured for that type
\* and server returns to its caller without throwing and leaves that role's
\* record in the store exactly once.
C12_UniqueAndDuplicateAddIsNoOp ==
    /\ [](\A rec \in BagToSet(store) : CopiesIn(rec, store) = 1)
    /\ [][ \A a \in Admins :
             AddStep(a) =>
               \A rec \in CallRecords(a) :
                 BagIn(rec, store) =>
                   /\ call'[a].result = "returned"
                   /\ CopiesIn(rec, store') = 1 ]_vars

\* An add call has met a duplicate key, caught it and returned, while the other
\* administrator's call is still running.
C12_Witness ==
    \E a, b \in Admins :
        /\ call[a].op = "add"
        /\ call[a].error = "BulkWriteError:11000"
        /\ call[a].result = "returned"
        /\ call[b].op # "none"
        /\ call[b].result = "none"

\* C13: a bulk add whose batch holds roles that are already configured still
\* inserts the roles that are not: when the database has run the insert, every
\* role of the batch has a record for that type and server afterwards,
\* wherever the duplicates sit in the batch.
C13_BulkAddInsertsTheRest ==
    [][ \A a \in Admins :
          (AddStep(a) /\ call'[a].error # "MongoNetworkError") =>
             \A rec \in CallRecords(a) : BagIn(rec, store') ]_vars

\* An add call met a duplicate key and still inserted another record.
C13_Witness ==
    \E a \in Admins :
        /\ call[a].op = "add"
        /\ call[a].error = "BulkWriteError:11000"
        /\ call[a].nInserted > 0
        /\ call[a].result = "returned"

\* An administrator's remove call takes a deleteOne step.
RemoveStep(a) == call[a].op = "remove" /\ call[a].result = "none" /\ call'[a] # call[a]

\* The record the next deleteOne of an administrator's remove call asks for.
Target(a) == SpamFilterConfig(call[a].objectType, call[a].roles[call[a].i], Guild)

\* C14: the removal of a role for an objectType and server deletes the record
\* with exactly that (objectType, discordObjectId, discordServerId) if it is
\* stored; when it is not stored the step is no error and deletes nothing; the
\* records of another objectType, role or server are stored afterwards as
\* they were before.
C14_RemoveDeletesExactlyTheRecord ==
    [][ \A a \in Admins :
          RemoveStep(a) =>
            /\ call'[a].result # "threw"
            /\ call'[a].error = "none" => ~BagIn(Target(a), store')
            /\ (call'[a].error = "none" /\ ~BagIn(Target(a), store)) => store' = store
            /\ \A rec \in BagToSet(store) \cup BagToSet(store') :
                 rec # Target(a) => CopiesIn(rec, store') = CopiesIn(rec, store) ]_vars

\* Two remove calls have returned: the last deleteOne of one found its record
\* and deleted it, the last deleteOne of the other found none, and a record of
\* a role is still stored.
C14_Witness ==
    \E a, b \in Admins :
        /\ call[a].op = "remove" /\ call[a].result = "returned"
        /\ call[a].error = "none" /\ call[a].deletedCount = 1
        /\ call[b].op = "remove" /\ call[b].result = "returned"
        /\ call[b].error = "none" /\ call[b].deletedCount = 0
        /\ \E r \in Roles, t \in RoleTypes : BagIn(SpamFilterConfig(t, r, Guild), store)

----------------------------------------------------------------------------
(* Server isolation.                                                        *)

\* The records another server may have in the collection.
OtherServerRecords ==
    {SpamFilterConfig(ALLOWLIST_USER, Candidate, OtherServer)}
        \cup {SpamFilterConfig(t, r, OtherServer) : t \in RoleTypes, r \in Roles}

\* The records of a collection that belong to one server.
OwnRecords(st, server) ==
    LET own == {x \in BagToSet(st) : x.discordServerId = server}
    IN  [x \in own |-> CopiesIn(x, st)]

\* C15: an evaluation for a candidate of guild G depends only on the records
\* of G: each of its three reads gives, on any store that has the same records
\* of G and any records of another server, the skip decision and the
\* protected-role list it gives on the store it runs on; what follows the
\* reads (the protected names, hence the verdict) is computed from the
\* protected-role list and the directory alone.
C15_OtherServersDoNotMatter ==
    /\ [][ \A others \in SUBSET OtherServerRecords :
             LET other == OwnRecords(store, member.guild) (+) SetToBag(others)
             IN  /\ (pc = "memberOnAllowlist" /\ pc' # pc)
                      => (pc' = "return25" <=> memberOnAllowlist(other, member))
                 /\ (pc = "roleOnAllowlist" /\ pc' # pc)
                      => (pc' = "return25" <=> roleOnAllowlist(other, member))
                 /\ (pc = "getProtectedRolesForServer" /\ pc' # pc)
                      => protectedRoles' = getProtectedRolesForServer(other, member) ]_vars
    /\ [](Compared =>
            protectedNames =
                {protectedName(p) : p \in getMembersWithRoles(member, protectedRoles)})

\* A candidate that has role r1 was banned while the collection held, for
\* another server, an allowlist record of the candidate, an allowlist record
\* of r1 and a protected-role record.
C15_Witness ==
    /\ pc = "return76"
    /\ "r1" \in member.roles
    /\ \A rec \in ForeignRecords : BagIn(rec, store)

----------------------------------------------------------------------------
(* Fresh reads.                                                             *)

\* The roles of a type that the store lists for the guild right now.
Configured(objectType) ==
    {r \in Roles : BagIn(SpamFilterConfig(objectType, r, Guild), store)}

\* C16: nothing is carried from one evaluation to the next.  An evaluation
\* starts with no protected role, no protected name and no name of its own;
\* each read decides on the store as the completed mutations have left it at
\* that step (a candidate with an allowlist record or a role on the allowlist
\* is skipped, the protected-role list is the list of roles protected now),
\* and the protected names are those of the members of the roles just read.
C16_EveryEvaluationReadsAfresh ==
    [][ /\ (pc = "idle" /\ pc' # pc)
             => /\ protectedRoles' = {} /\ protectedNames' = {}
                /\ nickname' = NULL /\ username' = <<>> /\ trace' \in {<<>>, <<"log:not bannable">>}
        /\ (pc = "memberOnAllowlist" /\ pc' # pc)
             => (pc' = "return25"
                   <=> BagIn(SpamFilterConfig(ALLOWLIST_USER, member.id, Guild), store))
        /\ (pc = "roleOnAllowlist" /\ pc' # pc)
             => (pc' = "return25" <=> member.roles \cap Configured(ALLOWLIST_ROLE) # {})
        /\ (pc = "getProtectedRolesForServer" /\ pc' # pc)
             => protectedRoles' = Configured(PROTECTED_ROLE)
        /\ (pc = "getMembersWithRoles" /\ pc' \notin {pc, "threw"})
             => protectedNames' =
                  {protectedName(p) : p \in getMembersWithRoles(member, protectedRoles)}
      ]_vars

\* An evaluation was skipped for role r2, which an add call has put on the
\* allowlist (no role is configured when the process starts), while no role
\* is protected.
C16_Witness ==
    /\ pc = "return25"
    /\ Called("log:role on the allowlist")
    /\ Configured(PROTECTED_ROLE) = {}
    /\ Configured(ALLOWLIST_ROLE) = {"r2"}

----------------------------------------------------------------------------
(* The protected-name set.                                                  *)

\* The members of the roles this evaluation has read as protected.
ProtectedMembers == getMembersWithRoles(member, protectedRoles)

\* The candidate's sanitized names.
CandidateNames ==
    {sanitizeUsername(member.username)}
        \cup (IF member.nickname # NULL THEN {sanitizeUsername(member.nickname)} ELSE {})

\* A name of the candidate is the username of a protected member that has a
\* nickname, and no name of the candidate is the nickname of a protected
\* member that has one or the username of a protected member that has none.
OnlyUnderlyingUsername ==
    /\ \E p \in ProtectedMembers :
         p.nickname # NULL /\ sanitizeUsername(p.username) \in CandidateNames
    /\ \A p \in ProtectedMembers :
         /\ p.nickname # NULL => sanitizeUsername(p.nickname) \notin CandidateNames
         /\ p.nickname = NULL => sanitizeUsername(p.username) \notin CandidateNames

----------------------------------------------------------------------------
(* Two evaluations of the same member.                                      *)

\* The DM or the ban of an evaluation failed on a member that the other
\* evaluation had already banned.
FailedOnBannedMember(e) ==
    \/ evals[e].dmResult = "failed" /\ evals[e].dmAfterBan
    \/ evals[e].banResult = "failed" /\ evals[e].banAfterBan

\* C18: two evaluations of the same member whose steps interleave are
\* independent: each calls member.ban at most once, each that found a match
\* and has ended has returned true, and none throws after its DM or its ban
\* failed on a member the other evaluation had banned.
C18_InterleavedEvaluationsIndependent ==
    \A e \in Evaluations :
        /\ evals[e].bans <= 1
        /\ (evals[e].matched /\ evals[e].pc \in Finished) => evals[e].returned = "true"
        /\ FailedOnBannedMember(e) => evals[e].returned # "throws"

\* What holds of the two evaluations: each calls member.ban at most once, a
\* failed DM or ban on an already banned member never makes an evaluation
\* throw, and whatever the other evaluation does, one that reached its DM
\* or its ban returns true.
C18_FailuresOnBannedMemberAreCaught ==
    \A e \in Evaluations :
        /\ evals[e].bans <= 1
        /\ FailedOnBannedMember(e) => evals[e].returned # "throws"
        /\ (evals[e].pc \in Finished /\ evals[e].dmResult # "none")
              => evals[e].returned = "true"

\* Both evaluations found a match; one banned the member, and the other, whose
\* DM and ban then failed, returned true.
C18_Witness ==
    \E e, f \in Evaluations :
        /\ evals[e].banResult = "ok" /\ ~evals[e].banAfterBan
        /\ evals[f].dmResult = "failed" /\ evals[f].dmAfterBan
        /\ evals[f].banResult = "failed" /\ evals[f].banAfterBan
        /\ evals[f].returned = "true"

----------------------------------------------------------------------------
(* The legacy object type.                                                  *)

\* The roles the legacy flow has designated for protection in the guild.
HighRankingRoles ==
    {r \in Roles : BagIn(SpamFilterConfig(HIGH_RANKING_ROLE, r, Guild), store)}

\* C19: a role that the legacy flow has stored with the object type
\* HIGH_RANKING_ROLE is a protected role for the engine: an evaluation that
\* reads the protected roles gets it in its list, and the names of its members
\* are in the protected-name set the evaluation computes from that list.
C19_HighRankingRoleIsProtected ==
    [][ (pc = "getProtectedRolesForServer" /\ pc' # pc)
          => /\ HighRankingRoles \subseteq protectedRoles'
             /\ HighRankingRoles # {} => pc' = "getMembersWithRoles" ]_vars

----------------------------------------------------------------------------
(* The normalizer.                                                          *)

\* C20: sanitizeUsername is idempotent: applied to its own result it returns
\* that result, for every string.
C20_SanitizeUsernameIdempotent ==
    sanitizing.stage = "twice" => sanitizing.twice = sanitizing.once

\* The string without its whitespace code points.
WithoutWhitespace(s) == SelectSeq(s, LAMBDA c : c # "SP")

\* The string with a whitespace code point put in before position k
\* (after the last code point when k = Len(s) + 1).
WithWhitespaceAt(s, k) == SubSeq(s, 1, k - 1) \o <<"SP">> \o SubSeq(s, k, Len(s))

\* The string with the case of its letters changed, for the letters whose
\* other case is a code point of the model.
OtherCase(s) ==
    [k \in DOMAIN s |->
        CASE s[k] = "a"       -> "A"
          [] s[k] = "A"       -> "a"
          [] s[k] = "a_ACUTE" -> "A_ACUTE"
          [] s[k] = "A_ACUTE" -> "a_ACUTE"
          [] OTHER            -> s[k]]

\* The strings that differ from s only in spacing, and the one that differs
\* only in case.
SpacingVariants(s) ==
    {WithoutWhitespace(s)} \cup {WithWhitespaceAt(s, k) : k \in 1..(Len(s) + 1)}

\* C21: sanitizeUsername is insensitive to case and to whitespace: a string
\* that differs from the name only by whitespace code points put in or taken
\* out, or only in the case of its letters, has the same result.
C21_CaseAndWhitespaceInsensitive ==
    sanitizing.stage = "once" =>
        /\ \A t \in SpacingVariants(sanitizing.name) : sanitizeUsername(t) = sanitizing.once
        /\ sanitizeUsername(OtherCase(sanitizing.name)) = sanitizing.once

\* What holds: the result does not depend on the case of the letters, nor on
\* the whitespace of a name that has no combining mark.
C21_CaseInsensitive ==
    sanitizing.stage = "once" =>
        /\ sanitizeUsername(OtherCase(sanitizing.name)) = sanitizing.once
        /\ (\A k \in DOMAIN sanitizing.name : sanitizing.name[k] # "ACUTE")
              => \A t \in SpacingVariants(sanitizing.name) :
                    sanitizeUsername(t) = sanitizing.once

----------------------------------------------------------------------------
(* The configuration wizard.                                                *)

\* C22: the wizard waits for the administrator's reaction for the 60 minutes
\* its footer gives: the wait is rejected as timed out only when 60 minutes
\* have passed, and a run whose administrator reacts before that has
\* collected the reaction.
C22_WaitsSixtyMinutes ==
    /\ wizard.error = "time" => wizard.elapsed >= FooterMinutes
    /\ (wizard.pc = "done" /\ wizard.authorized /\ wizard.roles # <<>>
          /\ wizard.replyAt < FooterMinutes)
         => wizard.reaction # "none"

\* What holds: the wait ends after (6000 * 60) ms, which is 6 minutes; a
\* reaction before that is collected, and the wait is rejected as timed out
\* exactly when the 6 minutes have passed without one.
C22_WaitsSixMinutes ==
    /\ Minutes(time) = 6
    /\ wizard.error = "time" => wizard.elapsed = Minutes(time)
    /\ (wizard.pc = "done" /\ wizard.authorized /\ wizard.roles # <<>>)
         => (wizard.reaction # "none" <=> wizard.replyAt < Minutes(time))

\* The three ways the wizard ends without applying a configuration.
Unauthorized == ~wizard.authorized
PickedEdit == wizard.reaction = "edit"
TimedOut == wizard.error = "time"

C23_StoreUnchanged ==
    [][(Unauthorized \/ PickedEdit \/ TimedOut) => store' = store]_vars

C23_EditAfterConnection ==
    wizard.pc = "done" /\ PickedEdit /\ wizard.dbConnected

\* The wait timed out after the database connection was made.
C23_TimeoutAfterConnection ==
    wizard.pc = "done" /\ TimedOut /\ wizard.dbConnected

----------------------------------------------------------------------------
(* The userUpdate handler.                                                  *)

\* C24: the userUpdate handler runs the engine exactly once for an event
\* whose usernames differ and whose member belongs to the configured guild
\* (the member is found and the guild passes the handler's guild test), does
\* not run it when the usernames are equal, and its promise is never
\* rejected: every failure of a fetch, of the member lookup or of the
\* evaluation is caught and logged.
C24_EngineOncePerUsernameChange ==
    /\ event.promise # "rejected"
    /\ event.runs <= 1
    /\ (event.usernameChanged /\ event.inGuild /\ event.isBanklessDAO) <=> event.runs = 1
    /\ event.pc = "done" =>
         /\ event.promise = "resolved"
         /\ event.error # "none" => event.logged
         /\ event.runs = 1 => handler \in {"returned", "caught"}
    /\ event.runs = 0 => pc = "idle" /\ handler = "none"

\* An event with changed usernames ended after one evaluation that threw:
\* the rejection was caught and logged.
C24_EvaluationFailureCaught ==
    /\ event.pc = "done"
    /\ event.runs = 1
    /\ event.error = "runUsernameSpamFilter"
    /\ event.logged

\* An event with equal usernames ended without an evaluation.
C24_EqualUsernamesNoRun ==
    event.pc = "done" /\ ~event.usernameChanged /\ event.error = "none" /\ event.runs = 0

\* The member lookup failed and was caught.
C24_LookupFailureCaught ==
    event.pc = "done" /\ event.error = "getGuildMemberFromUser" /\ event.logged

----------------------------------------------------------------------------
(* A candidate who holds a protected role.                                  *)

\* The evaluation compared the names of a candidate who holds one of the
\* roles it read as protected and whose display name (nickname if set, else
\* username) sanitizes to a non-empty string.
SelfProtected ==
    /\ Compared
    /\ member.roles \cap protectedRoles # {}
    /\ Truthy(protectedName(Entry(member)))

\* C25: a bannable, non-allowlisted candidate who holds a protected role and
\* whose display name normalizes to a non-empty string is matched against
\* their own name: the verdict is true and the ban is attempted.
C25_SelfMatchBanned ==
    (pc \in Finished /\ SelfProtected)
        => /\ returned = "true"
           /\ Called("ban")

\* What holds: the candidate's own display name is one of the protected names
\* and the match is computed; the verdict is true and the ban attempted
\* unless the evaluation throws at the fetch of an administrator contact.
C25_SelfMatchComputed ==
    SelfProtected
        => /\ protectedName(Entry(member)) \in protectedNames
           /\ isMatch(nickname, username, protectedNames)
           /\ pc # "return79"
           /\ pc \in Finished
                => \/ pc = "return76" /\ returned = "true" /\ Called("ban")
                   \/ pc = "threw" /\ ~Called("send") /\ ~Called("ban")

\* Such a candidate, whose name is no other protected member's, was banned.
C25_SelfMatchOnly ==
    /\ SelfProtected
    /\ pc = "return76"
    /\ banResult = "ok"
    /\ \A p \in getMembersWithRoles(member, protectedRoles) \ {Entry(member)} :
         protectedName(p) \notin {nickname, username}

----------------------------------------------------------------------------
(* Names that sanitize to the empty string.                                 *)

\* The `if` of the ban was true in this evaluation.
Matched == Compared /\ pc # "return79"

\* C26: the two names are tested asymmetrically when they sanitize to the
\* empty string.  A nickname that sanitizes to the empty string produces no
\* match through the nickname test: the evaluation matches only if the
\* username is a protected name.  A username that sanitizes to the empty
\* string matches whenever the empty string is a protected name.
C26_EmptyNameAsymmetry ==
    Compared =>
        /\ nickname = <<>> => (Matched <=> username \in protectedNames)
        /\ (username = <<>> /\ <<>> \in protectedNames) => Matched

\* A nickname that sanitizes to the empty string, which is a protected name,
\* gave no match.
C26_EmptyNicknameNoMatch ==
    /\ pc = "return79"
    /\ member.nickname # NULL
    /\ nickname = <<>>
    /\ <<>> \in protectedNames

\* A username that sanitizes to the empty string gave a match, the nickname
\* being no protected name.
C26_EmptyUsernameMatch ==
    /\ Matched
    /\ username = <<>>
    /\ nickname \notin protectedNames

----------------------------------------------------------------------------
(* The wizard's insert.                                                     *)

\* The administrator picked protect or add-to-allowlist and the insert ran.
AddReactionApplied ==
    /\ wizard.reaction \in {"protectRoles", "addToAllowlist"}
    /\ wizard.writes > 0

\* C27: addRolesToUsernameSpamFilter propagates no insert failure, of a
\* duplicate key or of any other kind: after a protect or add-to-allowlist
\* reaction the wizard goes on to send 'Configuration Added' and ends without
\* an error, whatever was stored.
C27_AddRolesNeverThrows ==
    AddReactionApplied
        => /\ wizard.error = "none"
           /\ wizard.confirmation = "Configuration Added"
           /\ wizard.pc \in {"confirm", "resolved", "done"}
           /\ wizard.pc = "done" => wizard.reply = "Successfully configured"

\* The insert failed and stored nothing; the error was logged and the
\* command replied that the configuration succeeded.
C27_NothingStoredStillConfirmed ==
    /\ AddReactionApplied
    /\ wizard.pc = "done"
    /\ wizard.logged # "none"
    /\ wizard.stored = 0
    /\ wizard.confirmation = "Configuration Added"

====
